---- MODULE Spec2Model ----
(***************************************************************************)
(* A model of the spreadsheet-backed ledger of bot.py: the Logs sheet, the *)
(* period sheets of the workbook, the two process-lifetime caches, and the *)
(* command handlers that read and write them.  Text is modelled as a       *)
(* sequence of one-character strings so that parsing, splitting and the    *)
(* store's input coercion are computed rather than assumed.                *)
(***************************************************************************)
EXTENDS Integers, Sequences, FiniteSets, TLC

VARIABLES
    logs,               \* the Logs sheet: row -> cells of the tracked columns C, E, G, J
    sheets,             \* the period sheets of the workbook (tabs other than Logs)
    now,                \* the wall clock: [month, leap]
    filterCells,        \* the store range Logs!P7:P18
    log_filters_cache,  \* bot.py global: [isNone, val]
    recent_logs,        \* bot.py global: the list stored by the last displaying /logs
    prev,               \* the Logs sheet before the last operation
    last,               \* the last operation: its inputs, store calls and result
    fhist,              \* the results of the last two get_log_filters calls
    nuke,               \* the /nuke handler: its position, its wait, the invoking channel
    loop                \* the event loop: handlers in flight, the one running, store operations

vars == <<logs, sheets, now, filterCells, log_filters_cache, recent_logs, prev, last, fhist,
          nuke, loop>>

\* ------------------------------------------------------------------ bounds

HeaderRows == 6
MaxRecs == 2
MaxCount == 3
MaxFilterRows == 2
MaxTicks == 1
MaxFail == 2

MaxRow == HeaderRows + MaxRecs
Rows == 1..MaxRow

\* ------------------------------------------------------------------ text

Empty == <<>>

Digits == {"0", "1", "2", "3", "4", "5", "6", "7", "8", "9"}

Min2(a, b) == IF a < b THEN a ELSE b
Max2(a, b) == IF a < b THEN b ELSE a

\* first index of s holding a character of cs, 0 when there is none
IndexOf(s, cs) ==
    IF \E i \in 1..Len(s) : s[i] \in cs
    THEN CHOOSE i \in 1..Len(s) : s[i] \in cs /\ \A j \in 1..(i - 1) : s[j] \notin cs
    ELSE 0

\* last index of s holding a character of cs, 0 when there is none
LastIndexOf(s, cs) ==
    IF \E i \in 1..Len(s) : s[i] \in cs
    THEN CHOOSE i \in 1..Len(s) : s[i] \in cs /\ \A j \in (i + 1)..Len(s) : s[j] \notin cs
    ELSE 0

From(s, i) == SubSeq(s, i, Len(s))

\* str.replace('$', '')
RemoveDollar(s) == SelectSeq(s, LAMBDA c : c # "$")

\* str.strip(), for the blank character
Strip(s) ==
    LET nb == {i \in 1..Len(s) : s[i] # " "}
    IN  IF nb = {} THEN Empty
        ELSE SubSeq(s, CHOOSE i \in nb : \A j \in nb : i <= j,
                       CHOOSE i \in nb : \A j \in nb : j <= i)

\* a run of digits in which single underscores may separate digits
DigitPart(s) ==
    /\ Len(s) > 0
    /\ \A i \in 1..Len(s) :
          \/ s[i] \in Digits
          \/ /\ s[i] = "_"
             /\ 1 < i /\ i < Len(s)
             /\ s[i - 1] \in Digits /\ s[i + 1] \in Digits

DropSign(s) == IF Len(s) > 0 /\ s[1] \in {"+", "-"} THEN Tail(s) ELSE s

LowerChar(c) ==
    CASE c = "I" -> "i" [] c = "N" -> "n" [] c = "F" -> "f" [] c = "A" -> "a"
      [] c = "T" -> "t" [] c = "Y" -> "y" [] OTHER -> c

Lower(s) == [i \in 1..Len(s) |-> LowerChar(s[i])]

FloatWords == { <<"i","n","f">>, <<"n","a","n">>, <<"i","n","f","i","n","i","t","y">> }

\* digits with an optional point: "5", "5.", ".5", "5.5"
IsMantissa(m) ==
    LET d == IndexOf(m, {"."})
    IN  IF d = 0 THEN DigitPart(m)
        ELSE LET ip == SubSeq(m, 1, d - 1)
                 fp == From(m, d + 1)
             IN  /\ ip = Empty \/ DigitPart(ip)
                 /\ fp = Empty \/ DigitPart(fp)
                 /\ ~(ip = Empty /\ fp = Empty)

\* a float() that reads no sign
FloatParsesUnsigned(s) ==
    LET u == Strip(s)
        e == IndexOf(u, {"e", "E"})
    IN  \/ Lower(u) \in FloatWords
        \/ /\ e = 0
           /\ IsMantissa(u)
        \/ /\ e > 0
           /\ IsMantissa(SubSeq(u, 1, e - 1))
           /\ DigitPart(From(u, e + 1))

\* does float(s) return (TRUE) or raise ValueError (FALSE)
FloatParses(s) ==
    LET u == DropSign(Strip(s))
        e == IndexOf(u, {"e", "E"})
    IN  \/ Lower(u) \in FloatWords
        \/ /\ e = 0
           /\ IsMantissa(u)
        \/ /\ e > 0
           /\ IsMantissa(SubSeq(u, 1, e - 1))
           /\ DigitPart(DropSign(From(u, e + 1)))

\* log[1].split('/')[-1]
ShortLink(l) == From(l, LastIndexOf(l, {"/"}) + 1)

\* ------------------------------------------------------------------ store

\* a run of digits without underscores, as the spreadsheet reads a number
IsNumeral(s) == Len(s) > 0 /\ \A i \in 1..Len(s) : s[i] \in Digits

StripLeadingZeros(s) ==
    LET nz == {i \in 1..Len(s) : s[i] # "0"}
    IN  IF nz = {} THEN <<"0">> ELSE From(s, CHOOSE i \in nz : \A j \in nz : i <= j)

StripTrailingZeros(s) ==
    LET nz == {i \in 1..Len(s) : s[i] # "0"}
    IN  IF nz = {} THEN Empty ELSE SubSeq(s, 1, CHOOSE i \in nz : \A j \in nz : j <= i)

\* is s "digits" or "digits.digits"
IsPlainNumber(s) ==
    LET d == IndexOf(s, {"."})
    IN  IF d = 0 THEN IsNumeral(s)
        ELSE IsNumeral(SubSeq(s, 1, d - 1)) /\ IsNumeral(From(s, d + 1))

IntPart(s) == LET d == IndexOf(s, {"."}) IN IF d = 0 THEN s ELSE SubSeq(s, 1, d - 1)
FracPart(s) == LET d == IndexOf(s, {"."}) IN IF d = 0 THEN Empty ELSE From(s, d + 1)

\* the general number format: no leading zeros, no trailing fraction zeros
RenderNumber(s) ==
    LET f == StripTrailingZeros(FracPart(s))
    IN  StripLeadingZeros(IntPart(s)) \o (IF f = Empty THEN Empty ELSE <<".">> \o f)

\* the currency format: two fraction digits
RenderCurrency(s) ==
    LET f == FracPart(s) \o <<"0", "0">>
    IN  <<"$">> \o StripLeadingZeros(IntPart(s)) \o <<".">> \o SubSeq(f, 1, 2)

\* What a cell shows after a write with valueInputOption="USER_ENTERED": text
\* that reads as a number is stored as a number and shown in its number format.
UserEntered(v) ==
    IF IsPlainNumber(v) THEN RenderNumber(v)
    ELSE IF Len(v) > 1 /\ v[1] = "-" /\ IsPlainNumber(Tail(v))
         THEN <<"-">> \o RenderNumber(Tail(v))
    ELSE IF Len(v) > 1 /\ v[1] = "$" /\ IsPlainNumber(Tail(v))
         THEN RenderCurrency(Tail(v))
    ELSE v

\* the number of the last row of the sheet with a value in column col, 0 if none
ColLen(sheet, col) ==
    LET used == {r \in Rows : sheet[r][col] # Empty}
    IN  IF used = {} THEN 0 ELSE CHOOSE r \in used : \A q \in used : q <= r

\* values().get of the column from row first down: one entry per row up to the
\* last row with a value, each <<value>>, or <<>> for a row with no value
ColValues(sheet, col, first) ==
    [i \in 1..Max2(ColLen(sheet, col) - first + 1, 0) |->
        IF sheet[first + i - 1][col] = Empty THEN <<>> ELSE <<sheet[first + i - 1][col]>>]

\* values[k][0] if k < len(values) else default, k counted from 0
Field(values, k, default) == IF k < Len(values) THEN values[k + 1][1] ELSE default

\* values[k][0] raises IndexError: the row is within the list and has no value
FieldRaises(values, k) == k < Len(values) /\ values[k + 1] = <<>>

\* ------------------------------------------------------------------ values

ann == <<"a", "n", "n">>
bob == <<"b", "o", "b">>
Creators == {ann, bob}

linkA == <<"h", "/", "a">>
linkB == <<"h", "/", "b">>
linkC == <<"g", "/", "a">>

p1050 == <<"1", "0", ".", "5", "0">>
pD5 == <<"$", "5">>
pNeg == <<"-", "3">>
pAbc == <<"a", "b", "c">>
pNan == <<"n", "a", "n">>

\* the (creator, link, price) arguments tried by /add
AddInputs ==
    { <<ann, linkA, p1050>>, <<bob, linkB, pD5>>, <<bob, linkC, pNeg>>, <<ann, linkB, pAbc>> }

Tokens == { <<"a">>, <<"b">> }

HeaderCell == <<"h">>
Yes == <<"Y", "e", "s">>
NA == <<"N", "/", "A">>
No == <<"N", "o">>
FALSEtext == <<"F", "A", "L", "S", "E">>
Sentinels == {NA, No, Empty, FALSEtext}

EmptyRow == [C |-> Empty, E |-> Empty, G |-> Empty, J |-> Empty]
\* a filled header row; none of the code's ranges reads column J above row 7
HeaderRow == [C |-> HeaderCell, E |-> HeaderCell, G |-> HeaderCell, J |-> Empty]

\* ------------------------------------------------------------------ ledger

Reverse(s) == [i \in 1..Len(s) |-> s[Len(s) + 1 - i]]

\* add_to_google_sheets: failAt is the number of the store call that raises, 0 for none
add_to_google_sheets(sheet, creator_name, link, price, failAt) ==
    LET max_rows == Len(ColValues(sheet, "C", 1))
        next_row == max_rows + 1
        written == [sheet EXCEPT ![next_row] =
                       [C |-> UserEntered(creator_name), E |-> UserEntered(link),
                        G |-> UserEntered(price), J |-> @.J]]
    IN  IF failAt = 1
        THEN [ok |-> FALSE, calls |-> <<"batchGet">>, sheet |-> sheet, row |-> 0]
        ELSE IF failAt = 2
        THEN [ok |-> FALSE, calls |-> <<"batchGet", "update">>, sheet |-> sheet, row |-> next_row]
        ELSE [ok |-> TRUE, calls |-> <<"batchGet", "update">>, sheet |-> written, row |-> next_row]

RemoveCols == <<"C", "E", "G">>

\* the k-th values().clear call of remove_recent_from_sheets
ClearCall(max_rows, k) ==
    [row |-> max_rows - ((k - 1) \div 3), col |-> RemoveCols[((k - 1) % 3) + 1]]

\* the sheet after the first n clear calls
Cleared(sheet, max_rows, n) ==
    [r \in Rows |->
        [C |-> IF \E k \in 1..n : ClearCall(max_rows, k) = [row |-> r, col |-> "C"]
               THEN Empty ELSE sheet[r].C,
         E |-> IF \E k \in 1..n : ClearCall(max_rows, k) = [row |-> r, col |-> "E"]
               THEN Empty ELSE sheet[r].E,
         G |-> IF \E k \in 1..n : ClearCall(max_rows, k) = [row |-> r, col |-> "G"]
               THEN Empty ELSE sheet[r].G,
         J |-> sheet[r].J]]

\* the threshold of "only the header": if max_rows <= 1
OnlyHeader(max_rows) == max_rows <= 1

\* remove_recent_from_sheets
remove_recent_from_sheets(sheet, count, failAt) ==
    LET vC == ColValues(sheet, "C", 1)
        vE == ColValues(sheet, "E", 1)
        vG == ColValues(sheet, "G", 1)
        max_rows == Max2(Len(vC), Max2(Len(vE), Len(vG)))
        rows_to_remove == Min2(count, max_rows - 1)
        raises == \E i \in 0..(rows_to_remove - 1) :
                     \/ FieldRaises(vC, max_rows - 1 - i)
                     \/ FieldRaises(vE, max_rows - 1 - i)
                     \/ FieldRaises(vG, max_rows - 1 - i)
        removed_records ==
            [j \in 1..rows_to_remove |->
                << Field(vC, max_rows - j, Empty),
                   Field(vE, max_rows - j, Empty),
                   Field(vG, max_rows - j, Empty) >>]
        nclear == 3 * rows_to_remove
        Calls(n) == <<"batchGet">> \o [k \in 1..n |-> "clear"]
    IN  IF failAt = 1
        THEN [ok |-> FALSE, out |-> <<>>, calls |-> <<"batchGet">>, sheet |-> sheet, cleared |-> 0]
        ELSE IF OnlyHeader(max_rows)
        THEN [ok |-> FALSE, out |-> <<>>, calls |-> <<"batchGet">>, sheet |-> sheet, cleared |-> 0]
        ELSE IF raises
        THEN [ok |-> FALSE, out |-> <<>>, calls |-> <<"batchGet">>, sheet |-> sheet, cleared |-> 0]
        ELSE IF failAt >= 2 /\ failAt - 1 <= nclear
        THEN [ok |-> FALSE, out |-> <<>>, calls |-> Calls(failAt - 1),
              sheet |-> Cleared(sheet, max_rows, failAt - 2), cleared |-> failAt - 2]
        ELSE [ok |-> TRUE, out |-> Reverse(removed_records), calls |-> Calls(nclear),
              sheet |-> Cleared(sheet, max_rows, nclear), cleared |-> nclear]

\* the first row that get_logs reads: ranges "Logs!C7:C", ...
FirstRecordRow == HeaderRows + 1

\* get_logs
get_logs(sheet, failAt) ==
    LET vC == ColValues(sheet, "C", FirstRecordRow)
        vE == ColValues(sheet, "E", FirstRecordRow)
        vG == ColValues(sheet, "G", FirstRecordRow)
        vJ == ColValues(sheet, "J", FirstRecordRow)
        max_rows == Max2(Max2(Len(vC), Len(vE)), Max2(Len(vG), Len(vJ)))
        raises == \E i \in 0..(max_rows - 1) :
                     \/ FieldRaises(vC, i) \/ FieldRaises(vE, i)
                     \/ FieldRaises(vG, i) \/ FieldRaises(vJ, i)
        all == [j \in 1..max_rows |->
                   << Field(vC, j - 1, NA), Field(vE, j - 1, NA),
                      Field(vG, j - 1, NA), Field(vJ, j - 1, No) >>]
        present(t) == ~(\A x \in 1..4 : t[x] \in Sentinels)
    IN  IF failAt = 1 \/ raises
        THEN [ok |-> FALSE, out |-> <<>>, calls |-> <<"batchGet">>]
        ELSE [ok |-> TRUE, out |-> SelectSeq(all, present), calls |-> <<"batchGet">>]

\* ------------------------------------------------------------------ months

LowerAlpha == << "a","b","c","d","e","f","g","h","i","j","k","l","m",
                 "n","o","p","q","r","s","t","u","v","w","x","y","z" >>
UpperAlpha == << "A","B","C","D","E","F","G","H","I","J","K","L","M",
                 "N","O","P","Q","R","S","T","U","V","W","X","Y","Z" >>

\* the upper-case letter of each lower-case letter
UpperOf ==
    [c \in {LowerAlpha[i] : i \in 1..26} |-> UpperAlpha[CHOOSE i \in 1..26 : LowerAlpha[i] = c]]

UpperChar(c) == IF c \in DOMAIN UpperOf THEN UpperOf[c] ELSE c

\* str.upper()
Upper(s) == [i \in 1..Len(s) |-> UpperChar(s[i])]

\* strftime("%b").upper() of the twelve months
MonthShort ==
    << <<"J","A","N">>, <<"F","E","B">>, <<"M","A","R">>, <<"A","P","R">>,
       <<"M","A","Y">>, <<"J","U","N">>, <<"J","U","L">>, <<"A","U","G">>,
       <<"S","E","P">>, <<"O","C","T">>, <<"N","O","V">>, <<"D","E","C">> >>

\* strftime("%B") of the twelve months
MonthFull ==
    << <<"J","a","n","u","a","r","y">>, <<"F","e","b","r","u","a","r","y">>,
       <<"M","a","r","c","h">>, <<"A","p","r","i","l">>, <<"M","a","y">>,
       <<"J","u","n","e">>, <<"J","u","l","y">>, <<"A","u","g","u","s","t">>,
       <<"S","e","p","t","e","m","b","e","r">>, <<"O","c","t","o","b","e","r">>,
       <<"N","o","v","e","m","b","e","r">>, <<"D","e","c","e","m","b","e","r">> >>

\* datetime.strptime(s, "%b"): the month s abbreviates, whatever its case; 0: ValueError
StrptimeB(s) ==
    LET u == Upper(s)
    IN  IF \E m \in 1..12 : MonthShort[m] = u
        THEN CHOOSE m \in 1..12 : MonthShort[m] = u
        ELSE 0

DaysIn(m, leap) ==
    IF m = 2 THEN (IF leap THEN 29 ELSE 28)
    ELSE IF m \in {4, 6, 9, 11} THEN 30 ELSE 31

\* the month of datetime.now().replace(day=1) + timedelta(days=32)
NextMonth(m, leap) == IF 1 + 32 > DaysIn(m, leap) THEN (m % 12) + 1 ELSE m

\* ------------------------------------------------------------------ workbook

LogsTitle == <<"L","o","g","s">>
Zero == <<"$","0",".","0","0">>
ZeroCount == <<"0">>
q120 == <<"$","1","2","0",".","0","0">>
q40 == <<"$","4","0",".","0","0">>
q3 == <<"3">>

SheetIndex(book, title) ==
    IF \E i \in 1..Len(book) : book[i].title = title
    THEN CHOOSE i \in 1..Len(book) : book[i].title = title
                                     /\ \A j \in 1..(i - 1) : book[j].title # title
    ELSE 0

\* the record rows (row 7 and below, columns C, E, G) of the Logs sheet
RecordArea(sheet) ==
    LET n == Max2(ColLen(sheet, "C"), Max2(ColLen(sheet, "E"), ColLen(sheet, "G")))
    IN  [i \in 1..Max2(n - HeaderRows, 0) |->
            << sheet[HeaderRows + i].C, sheet[HeaderRows + i].E, sheet[HeaderRows + i].G >>]

\* the record rows a period sheet shows: its own cells, or, where its cells are
\* formulas over the Logs sheet, the rows of the Logs sheet
Shown(sh, lg) == IF sh.view THEN RecordArea(lg) ELSE sh.rows

FailureResult ==
    [ok |-> FALSE, month |-> Empty, earned |-> Zero, pending |-> Zero, work_done |-> ZeroCount]

\* a cell read with no default
CellAsRead(cell, default) == cell

\* .get('values', [[default]])[0][0] of a one-cell range
CellOr(cell, default) == IF cell = Empty THEN default ELSE cell

\* get_month_summary: failAt = 1 makes its batchGet raise
get_month_summary(book, month_abbr, failAt) ==
    LET month_short == Upper(month_abbr)
        m == StrptimeB(month_short)
        i == SheetIndex(book, month_short)
    IN  IF m = 0
        THEN [res |-> FailureResult, calls |-> <<>>]
        ELSE IF failAt = 1 \/ i = 0
        THEN [res |-> FailureResult, calls |-> <<"batchGet">>]
        ELSE [res |-> [ok |-> TRUE, month |-> MonthFull[m],
                       earned |-> CellOr(book[i].Q15, Zero),
                       pending |-> CellOr(book[i].Q18, Zero),
                       work_done |-> CellOr(book[i].Q21, ZeroCount)],
              calls |-> <<"batchGet">>]

\* the store calls of end_month, in the order the code issues them
EndMonthSteps ==
    << "locate", "summary", "readQ15", "duplicate", "relocate",
       "copyRead", "copyWrite", "hide", "rename", "clear" >>

MaxId(book) == CHOOSE n \in {book[i].id : i \in 1..Len(book)} :
                  \A i \in 1..Len(book) : book[i].id <= n

\* duplicateSheet with insertSheetIndex 1
Duplicated(book, sourceId, newName) ==
    LET src == book[CHOOSE i \in 1..Len(book) : book[i].id = sourceId]
        new == [src EXCEPT !.id = MaxId(book) + 1, !.title = newName]
    IN  <<book[1], new>> \o Tail(book)

\* values().get of A1:Z1000 of the current sheet, then values().update of the
\* archive with them, valueInputOption="RAW"
ValuesCopied(book, lg, fromTitle, toTitle) ==
    LET src == book[SheetIndex(book, fromTitle)]
    IN  [i \in 1..Len(book) |->
            IF i = SheetIndex(book, toTitle)
            THEN [book[i] EXCEPT !.Q15 = src.Q15, !.Q18 = src.Q18, !.Q21 = src.Q21,
                                 !.rows = Shown(src, lg), !.view = FALSE]
            ELSE book[i]]

Hidden(book, id) ==
    [i \in 1..Len(book) |-> IF book[i].id = id THEN [book[i] EXCEPT !.hidden = TRUE] ELSE book[i]]

Renamed(book, id, title) ==
    [i \in 1..Len(book) |-> IF book[i].id = id THEN [book[i] EXCEPT !.title = title] ELSE book[i]]

\* a roll-over that leaves the record rows as they were
RecordsKept(lg) == lg

\* values().clear of "Logs!A7:G"
RecordsCleared(lg) ==
    [r \in Rows |-> IF r > HeaderRows
                    THEN [C |-> Empty, E |-> Empty, G |-> Empty, J |-> lg[r].J]
                    ELSE lg[r]]

\* "if not current_sheet_id": no sheet has the title, or the sheet's id is 0
NotLocated(book, title) ==
    SheetIndex(book, title) = 0 \/ book[SheetIndex(book, title)].id = 0

\* the store calls issued when step failStep is the first to raise (0: none raises):
\* the exception leaves the try block, so no later call is made
StepsIssued(failStep) ==
    IF failStep = 0 THEN EndMonthSteps ELSE SubSeq(EndMonthSteps, 1, failStep)

\* a roll-over that undoes its completed steps when a later one fails
BookRolledBack(failStep, book, b4, b7, b8, b9) == IF failStep = 0 THEN b9 ELSE book

\* the workbook left behind: the effects of the calls that completed, none undone
BookAfter(failStep, book, b4, b7, b8, b9) ==
    IF failStep \in 1..4 THEN book
    ELSE IF failStep \in 5..7 THEN b4
    ELSE IF failStep = 8 THEN b7
    ELSE IF failStep = 9 THEN b8
    ELSE b9

\* end_month: failAt is the number of the store call that raises, 0 for none
end_month(book, lg, clock, failAt) ==
    LET current_month_short == MonthShort[clock.month]
        current_month_full == MonthFull[clock.month]
        next_month_short == MonthShort[NextMonth(clock.month, clock.leap)]
        cur == SheetIndex(book, current_month_short)
        current_sheet_id == book[cur].id
        summary == get_month_summary(book, current_month_short, IF failAt = 2 THEN 1 ELSE 0).res
        q15_value == CellOr(book[cur].Q15, Empty)
        archived_sheet_name == current_month_full \o <<" ", "(">> \o q15_value \o <<")">>
        b4 == Duplicated(book, current_sheet_id, archived_sheet_name)
        archived_sheet_id == b4[SheetIndex(b4, archived_sheet_name)].id
        b7 == ValuesCopied(b4, lg, current_month_short, archived_sheet_name)
        b8 == Hidden(b7, archived_sheet_id)
        b9 == Renamed(b8, current_sheet_id, next_month_short)
        \* the first step that raises, 0 when none does
        failStep ==
            IF failAt = 1 \/ NotLocated(book, current_month_short) THEN 1
            ELSE IF ~summary.ok THEN 2
            ELSE IF failAt = 3 THEN 3
            ELSE IF failAt = 4 \/ SheetIndex(book, archived_sheet_name) # 0 THEN 4
            ELSE IF failAt \in 5..8 THEN failAt
            ELSE IF failAt = 9 \/ SheetIndex(b8, next_month_short) # 0 THEN 9
            ELSE IF failAt = 10 THEN 10
            ELSE 0
    IN  [res   |-> IF failStep = 0
                   THEN [ok |-> TRUE, month |-> current_month_full, earned |-> summary.earned,
                         pending |-> summary.pending, work_done |-> summary.work_done]
                   ELSE FailureResult,
         calls |-> StepsIssued(failStep),
         book  |-> BookAfter(failStep, book, b4, b7, b8, b9),
         sheet |-> IF failStep = 0 THEN RecordsCleared(lg) ELSE lg,
         failStep |-> failStep]

\* ------------------------------------------------------------------ caches

\* values().get of "Logs!P7:P18": rows up to the last one with a value
FilterValues(cells) ==
    LET used == {i \in 1..Len(cells) : cells[i] # Empty}
        n == IF used = {} THEN 0 ELSE CHOOSE i \in used : \A j \in used : j <= i
    IN  [i \in 1..n |-> IF cells[i] = Empty THEN <<>> ELSE <<cells[i]>>]

\* [row[0] for row in values if row and row[0]]
NonEmptyFirsts(values) ==
    LET kept == SelectSeq(values, LAMBDA row : row # <<>> /\ row[1] # Empty)
    IN  [i \in 1..Len(kept) |-> kept[i][1]]

\* a get_log_filters that reads the range on every call
get_log_filters_uncached(cache, cells, fails) ==
    IF fails
    THEN [ret |-> <<>>, cache |-> cache, reads |-> 1]
    ELSE [ret |-> NonEmptyFirsts(FilterValues(cells)),
          cache |-> [isNone |-> FALSE, val |-> NonEmptyFirsts(FilterValues(cells))],
          reads |-> 1]

\* get_log_filters: the value returned, the cache afterwards, the store reads made
get_log_filters(cache, cells, fails) ==
    IF cache.isNone
    THEN IF fails
         THEN [ret |-> <<>>, cache |-> cache, reads |-> 1]
         ELSE [ret |-> NonEmptyFirsts(FilterValues(cells)),
               cache |-> [isNone |-> FALSE, val |-> NonEmptyFirsts(FilterValues(cells))],
               reads |-> 1]
    ELSE [ret |-> cache.val, cache |-> cache, reads |-> 0]

\* ------------------------------------------------------------------ handlers

\* what is kept of an operation: its name, the result of the ledger function, the
\* handler's reply, the store calls issued, the value returned, a number and an
\* argument of the call, and whether a store call was made to raise
Op(op, ok, reply, calls, out, n, rec, fault) ==
    [op |-> op, ok |-> ok, reply |-> reply, calls |-> calls, out |-> out, n |-> n,
     rec |-> rec, fault |-> fault]

Snapshot == [logs |-> logs, sheets |-> sheets, recent |-> recent_logs]

NextRow(sheet) == Len(ColValues(sheet, "C", 1)) + 1

\* the rows of the sheet that hold a creator name
RecordCount(sheet) == Cardinality({r \in Rows : sheet[r].C \notin {Empty, HeaderCell}})

\* add_slash
AddSlash ==
    \E inp \in AddInputs, f \in 0..2 :
        LET r == add_to_google_sheets(logs, inp[1], inp[2], inp[3], f)
        IN  /\ IF FloatParses(RemoveDollar(inp[3]))
               THEN /\ NextRow(logs) <= MaxRow
                    /\ RecordCount(logs) < MaxRecs
                    /\ logs' = r.sheet
                    /\ last' = Op("add", r.ok,
                                  IF r.ok THEN "Record Added" ELSE "Failed to add record.",
                                  r.calls, <<>>, r.row, inp, f # 0)
               ELSE /\ f = 0
                    /\ logs' = logs
                    /\ last' = Op("add", FALSE, "Invalid price format.", <<>>, <<>>, 0, inp, FALSE)
            /\ prev' = Snapshot
            /\ UNCHANGED <<sheets, now, filterCells, log_filters_cache, recent_logs, fhist, nuke, loop>>

\* removerecent_slash
RemoveRecentSlash ==
    \E count \in 0..MaxCount, f \in 0..MaxFail :
        LET r == remove_recent_from_sheets(logs, count, f)
        IN  /\ IF count < 1
               THEN /\ f = 0
                    /\ logs' = logs
                    /\ last' = Op("removerecent", FALSE, "Specify a positive number.",
                                  <<>>, <<>>, count, <<>>, FALSE)
               ELSE /\ f <= Len(r.calls)
                    /\ logs' = r.sheet
                    /\ last' = Op("removerecent", r.ok,
                                  IF r.ok /\ r.out # <<>> THEN "Removed"
                                  ELSE IF r.ok THEN "No records to remove."
                                  ELSE "Failed to remove records.",
                                  r.calls, r.out, count, <<>>, f # 0)
            /\ prev' = Snapshot
            /\ UNCHANGED <<sheets, now, filterCells, log_filters_cache, recent_logs, fhist, nuke, loop>>

\* logs_slash: filter is Empty when the option is not given
LogsSlash ==
    \E filter \in Creators \cup {Empty}, f \in 0..1 :
        LET g == get_logs(logs, f)
            shown == IF filter # Empty
                     THEN SelectSeq(g.out, LAMBDA log : log[1] = filter)
                     ELSE g.out
        IN  /\ IF ~g.ok
               THEN /\ recent_logs' = recent_logs
                    /\ last' = Op("logs", FALSE, "Failed to fetch logs.", g.calls, <<>>, 0, filter, f # 0)
               ELSE IF shown = <<>>
               THEN /\ recent_logs' = recent_logs
                    /\ last' = Op("logs", TRUE, "No Records", g.calls, shown, 0, filter, FALSE)
               ELSE /\ recent_logs' = shown
                    /\ last' = Op("logs", TRUE, "Entries", g.calls, shown, 0, filter, FALSE)
            /\ prev' = Snapshot
            /\ UNCHANGED <<logs, sheets, now, filterCells, log_filters_cache, fhist, nuke, loop>>

\* next((log[1] for log in recent_logs if log[1].split('/')[-1] == link), None)
Resolve(recent, link) ==
    LET hits == SelectSeq(recent, LAMBDA log : ShortLink(log[2]) = link)
    IN  IF hits = <<>> THEN Empty ELSE hits[1][2]

\* getlink_slash and getimage_slash
GetLinkSlash ==
    \E link \in Tokens, cmd \in {"getlink", "getimage"} :
        /\ last' = IF recent_logs = <<>>
                   THEN Op(cmd, FALSE, "No recent /logs output found.", <<>>, <<>>, 0, link, FALSE)
                   ELSE IF Resolve(recent_logs, link) # Empty
                   THEN Op(cmd, TRUE, "Full URL", <<>>, <<Resolve(recent_logs, link)>>, 0, link, FALSE)
                   ELSE Op(cmd, FALSE, "not found", <<>>, <<>>, 0, link, FALSE)
        /\ prev' = Snapshot
        /\ UNCHANGED <<logs, sheets, now, filterCells, log_filters_cache, recent_logs, fhist, nuke, loop>>

ResultTuple(res) == <<res.month, res.earned, res.pending, res.work_done>>

\* endmonth_slash
EndMonthSlash ==
    \E f \in 0..Len(EndMonthSteps) :
        LET r == end_month(sheets, logs, now, f)
        IN  /\ f <= Len(r.calls)
            /\ sheets' = r.book
            /\ logs' = r.sheet
            /\ last' = Op("endmonth", r.res.ok,
                          IF r.res.ok THEN "Wrapped Up" ELSE "Failed to end month.",
                          r.calls, ResultTuple(r.res), r.failStep, <<>>, f # 0)
            /\ prev' = Snapshot
            /\ UNCHANGED <<now, filterCells, log_filters_cache, recent_logs, fhist, nuke, loop>>

\* the month tokens get_month_summary is applied to
SummaryTokens ==
    { <<"j","a","n">>, <<"F","E","B">>, <<"d","e","c">>, <<"x","y","z">>,
      <<"J","a","n","u","a","r","y">> }

\* get_month_summary applied to a token (summary_slash passes the current month's)
Summary ==
    \E token \in SummaryTokens, f \in 0..1 :
        LET r == get_month_summary(sheets, token, f)
        IN  /\ f <= Len(r.calls)
            /\ last' = Op("summary", r.res.ok,
                          IF r.res.ok THEN "Overview" ELSE "Failed to fetch summary",
                          r.calls, ResultTuple(r.res), 0, token, f # 0)
            /\ prev' = Snapshot
            /\ UNCHANGED <<logs, sheets, now, filterCells, log_filters_cache, recent_logs, fhist, nuke, loop>>

\* the calendar moves on to the next month
Tick ==
    /\ now.ticks < MaxTicks
    /\ now' = [month |-> (now.month % 12) + 1, leap |-> now.leap, ticks |-> now.ticks + 1]
    /\ last' = Op("tick", TRUE, "", <<>>, <<>>, 0, <<>>, FALSE)
    /\ prev' = Snapshot
    /\ UNCHANGED <<logs, sheets, filterCells, log_filters_cache, recent_logs, fhist, nuke, loop>>

\* creator_autocomplete: the one caller of get_log_filters
CreatorAutocomplete ==
    \E fails \in BOOLEAN :
        LET r == get_log_filters(log_filters_cache, filterCells, fails)
        IN  /\ fails => r.reads = 1
            /\ log_filters_cache' = r.cache
            /\ fhist' = IF Len(fhist) < 2 THEN Append(fhist, [ret |-> r.ret, reads |-> r.reads, failed |-> fails])
                        ELSE <<fhist[2], [ret |-> r.ret, reads |-> r.reads, failed |-> fails]>>
            /\ last' = Op("filters", TRUE, "", [i \in 1..r.reads |-> "get"], r.ret, 0, <<>>, fails)
            /\ prev' = Snapshot
            /\ UNCHANGED <<logs, sheets, now, filterCells, recent_logs, nuke, loop>>

\* a user of the spreadsheet edits a cell of Logs!P7:P18
EditFilters ==
    \E i \in 1..MaxFilterRows, v \in Creators \cup {Empty} :
        /\ filterCells[i] # v
        /\ filterCells' = [filterCells EXCEPT ![i] = v]
        /\ last' = Op("edit", TRUE, "", <<>>, <<>>, 0, <<>>, FALSE)
        /\ prev' = Snapshot
        /\ UNCHANGED <<logs, sheets, now, log_filters_cache, recent_logs, fhist, nuke, loop>>

\* ------------------------------------------------------------------ purge

MaxMsgs == 2
MaxBacklog == 1
\* wait_for(..., timeout=10.0)
NukeTimeout == 10

LowerCharOf(c) ==
    IF \E i \in 1..26 : UpperAlpha[i] = c
    THEN LowerAlpha[CHOOSE i \in 1..26 : UpperAlpha[i] = c]
    ELSE c

\* str.lower()
ToLower(s) == [i \in 1..Len(s) |-> LowerCharOf(s[i])]

yes == <<"y", "e", "s">>
yEs == <<"Y", "e", "S">>
no == <<"n", "o">>

\* the messages that can be posted while the handler runs
Messages ==
    { [author |-> "invoker", channel |-> "here", content |-> yes],
      [author |-> "invoker", channel |-> "here", content |-> yEs],
      [author |-> "invoker", channel |-> "here", content |-> no],
      [author |-> "other", channel |-> "here", content |-> yes],
      [author |-> "invoker", channel |-> "elsewhere", content |-> yEs],
      [author |-> "other", channel |-> "elsewhere", content |-> no] }

\* a check that does not look at who wrote the message
check_any_author(m) ==
    /\ m.channel = "here"
    /\ ToLower(m.content) = <<"y", "e", "s">>

\* the check of bot.wait_for: m.author == interaction.user and
\* m.channel == interaction.channel and m.content.lower() == "yes"
check(m) ==
    /\ m.author = "invoker"
    /\ m.channel = "here"
    /\ ToLower(m.content) = <<"y", "e", "s">>

\* before /nuke is invoked, with backlog messages in the channel
NukeIdle(backlog) ==
    [pc |-> "idle", elapsed |-> 0, channel |-> backlog, deleted |-> 0, purged |-> FALSE,
     reply |-> "", arrivals |-> <<>>]

\* nuke_slash up to its first await: the permission test, then send_message
NukeSlash ==
    \E manage_messages \in BOOLEAN :
        /\ nuke.pc = "idle"
        /\ nuke' = IF manage_messages
                   THEN [nuke EXCEPT !.pc = "prompting"]
                   ELSE [nuke EXCEPT !.pc = "done", !.channel = @ + 1,
                                     !.reply = "I need 'Manage Messages' permission!"]
        /\ UNCHANGED <<logs, sheets, now, filterCells, log_filters_cache, recent_logs,
                       prev, last, fhist, loop>>

\* send_message returns: the prompt is in the channel and bot.wait_for registers
\* its listener
PromptSent ==
    /\ nuke.pc = "prompting"
    /\ nuke' = [nuke EXCEPT !.pc = "waiting", !.elapsed = 0, !.channel = @ + 1,
                            !.reply = "Type yes to confirm (10s timeout)."]
    /\ UNCHANGED <<logs, sheets, now, filterCells, log_filters_cache, recent_logs,
                   prev, last, fhist, loop>>

\* a message is posted somewhere; the listener, if registered, applies check to
\* it.  An arrival is recorded with the handler's position and, during the
\* wait, the seconds waited so far.
MessageArrives ==
    \E m \in Messages :
        /\ Len(nuke.arrivals) < MaxMsgs
        /\ nuke' = [nuke EXCEPT
                       !.arrivals = Append(@, [m |-> m, pc |-> nuke.pc,
                                               at |-> IF nuke.pc = "waiting"
                                                      THEN nuke.elapsed ELSE 0]),
                       !.channel = IF m.channel = "here" THEN @ + 1 ELSE @,
                       !.pc = IF nuke.pc = "waiting" /\ check(m) THEN "purging" ELSE @]
        /\ UNCHANGED <<logs, sheets, now, filterCells, log_filters_cache, recent_logs,
                       prev, last, fhist, loop>>

\* a second of the wait passes
WaitTick ==
    /\ nuke.pc = "waiting"
    /\ nuke.elapsed < NukeTimeout
    /\ nuke' = [nuke EXCEPT !.elapsed = @ + 1]
    /\ UNCHANGED <<logs, sheets, now, filterCells, log_filters_cache, recent_logs,
                   prev, last, fhist, loop>>

\* except asyncio.TimeoutError: edit_original_response("Nuke cancelled.")
WaitTimesOut ==
    /\ nuke.pc = "waiting"
    /\ nuke.elapsed = NukeTimeout
    /\ nuke' = [nuke EXCEPT !.pc = "done", !.reply = "Nuke cancelled."]
    /\ UNCHANGED <<logs, sheets, now, filterCells, log_filters_cache, recent_logs,
                   prev, last, fhist, loop>>

\* channel.purge(limit=None), then the edit of the reply; a purge that raises
\* part-way leaves k < channel messages deleted and the reply as it was
Purge ==
    \E k \in 0..nuke.channel :
        /\ nuke.pc = "purging"
        /\ nuke' = [nuke EXCEPT !.pc = "done", !.purged = TRUE, !.deleted = k,
                                !.channel = @ - k,
                                !.reply = IF k = nuke.channel THEN "Nuked" ELSE @]
        /\ UNCHANGED <<logs, sheets, now, filterCells, log_filters_cache, recent_logs,
                       prev, last, fhist, loop>>

\* ------------------------------------------------------------------ event loop

MaxTasks == 3

\* no handler in flight
LoopIdle == [tasks |-> <<>>, running |-> 0, oplog |-> <<>>]

\* the commands invoked concurrently, with their arguments
Commands ==
    { [kind |-> "add", arg |-> <<ann, linkA, p1050>>],
      [kind |-> "add", arg |-> <<bob, linkB, pD5>>],
      [kind |-> "removerecent", arg |-> 1],
      [kind |-> "endmonth", arg |-> 0] }

\* a handler may take a step when no other handler holds the loop
CanRun(t) == t \in 1..Len(loop.tasks) /\ loop.running \in {0, t}

\* an update that yields the loop after the read of column C
AfterReadYields(t) == 0

\* who holds the loop after the batchGet of add_to_google_sheets: the same
\* handler, the function being a plain def with nothing awaited before its update
AfterRead(t) == t

\* the values().update of add_to_google_sheets at the row computed from the read
UpdateRow(sheet, next_row, creator_name, link, price) ==
    [sheet EXCEPT ![next_row] =
        [C |-> UserEntered(creator_name), E |-> UserEntered(link),
         G |-> UserEntered(price), J |-> @.J]]

StoreOp(t, op, rows) == [task |-> t, op |-> op, rows |-> rows]

\* a command is invoked: its handler starts and suspends in
\* await interaction.response.defer().  A handler that has run its body is at
\* pc "reply": in await interaction.followup.send, which touches nothing here.
Invoke ==
    \E c \in Commands :
        /\ loop.running = 0
        /\ Len(loop.tasks) < MaxTasks
        /\ loop' = [loop EXCEPT !.tasks = Append(@, [kind |-> c.kind, arg |-> c.arg, pc |-> "defer",
                                                     row |-> 0])]
        /\ UNCHANGED <<logs, sheets, now, filterCells, log_filters_cache, recent_logs,
                       prev, last, fhist, nuke>>

\* add_slash resumes: float(price.replace('$', '')), then the batchGet of
\* add_to_google_sheets; an unreadable price goes straight to the reply
AddRead ==
    \E t \in 1..Len(loop.tasks), fails \in BOOLEAN :
        /\ CanRun(t)
        /\ loop.tasks[t].kind = "add"
        /\ loop.tasks[t].pc = "defer"
        /\ IF ~FloatParses(RemoveDollar(loop.tasks[t].arg[3]))
           THEN /\ ~fails
                /\ loop' = [loop EXCEPT !.tasks[t].pc = "reply", !.running = 0]
           ELSE IF fails
           THEN loop' = [loop EXCEPT !.tasks[t].pc = "reply", !.running = 0,
                                     !.oplog = Append(@, StoreOp(t, "read-failed", {}))]
           ELSE /\ NextRow(logs) <= MaxRow
                /\ loop' = [loop EXCEPT !.tasks[t].pc = "write", !.tasks[t].row = NextRow(logs),
                                        !.running = AfterRead(t),
                                        !.oplog = Append(@, StoreOp(t, "read", {NextRow(logs)}))]
        /\ UNCHANGED <<logs, sheets, now, filterCells, log_filters_cache, recent_logs,
                       prev, last, fhist, nuke>>

\* the values().update of add_to_google_sheets, then await followup.send
AddWrite ==
    \E t \in 1..Len(loop.tasks), fails \in BOOLEAN :
        /\ CanRun(t)
        /\ loop.tasks[t].kind = "add"
        /\ loop.tasks[t].pc = "write"
        /\ logs' = IF fails THEN logs
                   ELSE UpdateRow(logs, loop.tasks[t].row, loop.tasks[t].arg[1],
                                  loop.tasks[t].arg[2], loop.tasks[t].arg[3])
        /\ loop' = [loop EXCEPT !.tasks[t].pc = "reply", !.running = 0,
                                !.oplog = Append(@, IF fails THEN StoreOp(t, "write-failed", {})
                                                    ELSE StoreOp(t, "write", {loop.tasks[t].row}))]
        /\ UNCHANGED <<sheets, now, filterCells, log_filters_cache, recent_logs,
                       prev, last, fhist, nuke>>

\* removerecent_slash resumes: remove_recent_from_sheets, then await followup.send
RemoveBody ==
    \E t \in 1..Len(loop.tasks) :
        LET r == remove_recent_from_sheets(logs, loop.tasks[t].arg, 0)
        IN  /\ CanRun(t)
            /\ loop.tasks[t].kind = "removerecent"
            /\ loop.tasks[t].pc = "defer"
            /\ logs' = r.sheet
            /\ loop' = [loop EXCEPT !.tasks[t].pc = "reply", !.running = 0,
                                    !.oplog = Append(@, StoreOp(t, "removerecent",
                                                     {q \in Rows : r.sheet[q] # logs[q]}))]
            /\ UNCHANGED <<sheets, now, filterCells, log_filters_cache, recent_logs,
                           prev, last, fhist, nuke>>

\* endmonth_slash resumes: end_month, then await followup.send
EndMonthBody ==
    \E t \in 1..Len(loop.tasks) :
        LET r == end_month(sheets, logs, now, 0)
        IN  /\ CanRun(t)
            /\ loop.tasks[t].kind = "endmonth"
            /\ loop.tasks[t].pc = "defer"
            /\ logs' = r.sheet
            /\ sheets' = r.book
            /\ loop' = [loop EXCEPT !.tasks[t].pc = "reply", !.running = 0,
                                    !.oplog = Append(@, StoreOp(t, "endmonth",
                                                     IF r.res.ok THEN {q \in Rows : q > HeaderRows}
                                                     ELSE {}))]
            /\ UNCHANGED <<now, filterCells, log_filters_cache, recent_logs,
                           prev, last, fhist, nuke>>

\* ------------------------------------------------------------------ initial states

\* The Logs sheet as the bot finds it: six header rows above the records
\* (row 6 holds the column titles; rows 1..5 are filled or blank), and
\* possibly one record already in row 7, marked paid or not.
LogsTemplate(dense, row7) ==
    [r \in Rows |->
        IF r < HeaderRows THEN (IF dense THEN HeaderRow ELSE EmptyRow)
        ELSE IF r = HeaderRows THEN HeaderRow
        ELSE IF r = HeaderRows + 1 THEN row7
        ELSE EmptyRow]

OldRecord(paid) == [C |-> ann, E |-> linkB, G |-> <<"7">>, J |-> paid]

Tab(id, title, q15, q18, q21, view, rows) ==
    [id |-> id, title |-> title, hidden |-> FALSE, Q15 |-> q15, Q18 |-> q18, Q21 |-> q21,
     view |-> view, rows |-> rows]

LogsTab(id) == Tab(id, LogsTitle, Empty, Empty, Empty, FALSE, <<>>)

InitProcess ==
    /\ log_filters_cache = [isNone |-> TRUE, val |-> <<>>]
    /\ recent_logs = <<>>
    /\ fhist = <<>>
    /\ last = Op("init", TRUE, "", <<>>, <<>>, 0, <<>>, FALSE)
    /\ prev = Snapshot
    /\ nuke = NukeIdle(0)
    /\ loop = LoopIdle

Init ==
    /\ \E dense \in BOOLEAN, row7 \in {EmptyRow, OldRecord(Empty), OldRecord(Yes)} :
          logs = LogsTemplate(dense, row7)
    /\ sheets = << LogsTab(0), Tab(5, MonthShort[1], q120, q40, q3, TRUE, <<>>) >>
    /\ now = [month |-> 1, leap |-> FALSE, ticks |-> 0]
    /\ filterCells = [i \in 1..MaxFilterRows |-> Empty]
    /\ InitProcess

Next ==
    \/ AddSlash
    \/ RemoveRecentSlash

Spec == Init /\ [][Next]_vars

\* the Logs sheet with two records already in rows 7 and 8
InitLogs ==
    /\ \E c1 \in Creators, c2 \in Creators, l2 \in {linkA, linkC} :
          logs = [LogsTemplate(FALSE, [C |-> c1, E |-> linkB, G |-> <<"7">>, J |-> Empty])
                     EXCEPT ![HeaderRows + 2] = [C |-> c2, E |-> l2, G |-> <<"9">>, J |-> Empty]]
    /\ sheets = << LogsTab(0), Tab(5, MonthShort[1], q120, q40, q3, TRUE, <<>>) >>
    /\ now = [month |-> 1, leap |-> FALSE, ticks |-> 0]
    /\ filterCells = [i \in 1..MaxFilterRows |-> Empty]
    /\ InitProcess

NextLogs ==
    \/ LogsSlash
    \/ GetLinkSlash
    \/ RemoveRecentSlash

SpecLogs == InitLogs /\ [][NextLogs]_vars

InitMonth ==
    /\ logs = LogsTemplate(FALSE, OldRecord(Empty))
    /\ \E clock \in { <<12, FALSE>>, <<1, TRUE>> } :
          now = [month |-> clock[1], leap |-> clock[2], ticks |-> 0]
    /\ \E id \in {0, 5}, t \in {12, 1}, missing \in 0..3, view \in BOOLEAN, extra \in BOOLEAN :
          sheets = << LogsTab(5 - id),
                      Tab(id, MonthShort[t],
                          IF missing = 1 THEN Empty ELSE q120,
                          IF missing = 2 THEN Empty ELSE q40,
                          IF missing = 3 THEN Empty ELSE q3,
                          view, <<ann>>) >>
                   \o (IF extra THEN << Tab(9, MonthShort[3], q40, Empty, q3, FALSE, <<bob>>) >>
                       ELSE << >>)
    /\ filterCells = [i \in 1..MaxFilterRows |-> Empty]
    /\ InitProcess

NextMonthOps ==
    \/ EndMonthSlash
    \/ Summary
    \/ Tick

SpecMonth == InitMonth /\ [][NextMonthOps]_vars

InitCache ==
    /\ logs = LogsTemplate(FALSE, EmptyRow)
    /\ sheets = << LogsTab(0) >>
    /\ now = [month |-> 1, leap |-> FALSE, ticks |-> 0]
    /\ filterCells \in [1..MaxFilterRows -> Creators \cup {Empty}]
    /\ InitProcess

NextCache ==
    \/ CreatorAutocomplete
    \/ EditFilters

SpecCache == InitCache /\ [][NextCache]_vars

InitNuke ==
    /\ logs = LogsTemplate(FALSE, EmptyRow)
    /\ sheets = << LogsTab(0) >>
    /\ now = [month |-> 1, leap |-> FALSE, ticks |-> 0]
    /\ filterCells = [i \in 1..MaxFilterRows |-> Empty]
    /\ log_filters_cache = [isNone |-> TRUE, val |-> <<>>]
    /\ recent_logs = <<>>
    /\ fhist = <<>>
    /\ last = Op("init", TRUE, "", <<>>, <<>>, 0, <<>>, FALSE)
    /\ prev = Snapshot
    /\ \E backlog \in 0..MaxBacklog : nuke = NukeIdle(backlog)
    /\ loop = LoopIdle

NextNuke ==
    \/ NukeSlash
    \/ PromptSent
    \/ MessageArrives
    \/ WaitTick
    \/ WaitTimesOut
    \/ Purge

SpecNuke == InitNuke /\ [][NextNuke]_vars

InitLoop ==
    /\ \E row7 \in {EmptyRow, OldRecord(Yes)} : logs = LogsTemplate(TRUE, row7)
    /\ sheets = << LogsTab(0), Tab(5, MonthShort[1], q120, q40, q3, TRUE, <<>>) >>
    /\ now = [month |-> 1, leap |-> FALSE, ticks |-> 0]
    /\ filterCells = [i \in 1..MaxFilterRows |-> Empty]
    /\ InitProcess

NextLoop ==
    \/ Invoke
    \/ AddRead
    \/ AddWrite
    \/ RemoveBody
    \/ EndMonthBody

SpecLoop == InitLoop /\ [][NextLoop]_vars

\* ------------------------------------------------------------------ properties

Tracked(row) == <<row.C, row.E, row.G, row.J>>

\* a row holds a record: a tracked cell has a value that is no "empty" sentinel
HoldsRecord(row) == \E x \in 1..4 : Tracked(row)[x] \notin Sentinels

RecordRowsOf(sheet) == {r \in Rows : r > HeaderRows /\ HoldsRecord(sheet[r])}

AddDone == last.op = "add" /\ last.ok

\* C1: the row a successful append writes held no value in C, E, G or J before
\* the write, and it lies below every row that holds a record.
C1_NeverOverwrites ==
    AddDone =>
        /\ Tracked(prev.logs[last.n]) = <<Empty, Empty, Empty, Empty>>
        /\ \A r \in RecordRowsOf(prev.logs) : r < last.n

\* the record rows of a sheet: rows below the header with a value in C, E or G
RecordRows(sheet) ==
    {r \in Rows : r > HeaderRows /\ <<sheet[r].C, sheet[r].E, sheet[r].G>> # <<Empty, Empty, Empty>>}

ChangedRows == {r \in Rows : logs[r] # prev.logs[r]}

\* the k greatest members of a set of rows
Bottom(S, k) == {r \in S : Cardinality({q \in S : q > r}) < k}

\* the members of a set of rows in ascending order
Ascending(S) ==
    [j \in 1..Cardinality(S) |-> CHOOSE r \in S : Cardinality({q \in S : q < r}) = j - 1]

RemoveCalled == last.op = "removerecent" /\ last.n >= 1 /\ ~last.fault

\* C2: remove_recent_from_sheets(N) on a sheet with M >= 1 record rows clears
\* exactly min(N, M) rows, the bottom-most record rows, and returns their
\* (creator, link, price) contents, oldest first.
C2_RemovesMinNM ==
    (RemoveCalled /\ RecordRows(prev.logs) # {}) =>
        LET M == Cardinality(RecordRows(prev.logs))
            k == Min2(last.n, M)
            gone == Ascending(Bottom(RecordRows(prev.logs), k))
        IN  /\ ChangedRows = Bottom(RecordRows(prev.logs), k)
            /\ \A r \in ChangedRows : <<logs[r].C, logs[r].E, logs[r].G>> = <<Empty, Empty, Empty>>
            /\ Len(last.out) = k
            /\ \A j \in 1..k :
                  last.out[j] = <<prev.logs[gone[j]].C, prev.logs[gone[j]].E, prev.logs[gone[j]].G>>

\* the maximum observed column length of C, E and G
MaxRowsOf(sheet) == Max2(ColLen(sheet, "C"), Max2(ColLen(sheet, "E"), ColLen(sheet, "G")))

\* C3: remove-recent on an empty or header-only Logs sheet (maxRows <= 1) issues
\* no clear call, returns (True, []) and is answered "No records to remove."
C3_HeaderOnlyIsNoOp ==
    (RemoveCalled /\ MaxRowsOf(prev.logs) <= 1) =>
        /\ last.calls = <<"batchGet">>
        /\ logs = prev.logs
        /\ last.ok
        /\ last.out = <<>>
        /\ last.reply = "No records to remove."

\* digits with an optional fraction, after an optional "$": a non-negative decimal
IsNonNegativeDecimal(p) ==
    LET t == IF Len(p) > 0 /\ p[1] = "$" THEN Tail(p) ELSE p
        d == {i \in 1..Len(t) : t[i] = "."}
    IN  /\ Len(t) > 0
        /\ \A i \in 1..Len(t) : t[i] \in Digits \cup {"."}
        /\ Cardinality(d) <= 1
        /\ Cardinality(d) < Len(t)

\* C6: when an append of a valid (creator, link, price) succeeds, get_logs called
\* next succeeds and its list contains (creator, link, price, "No").
C6_AppendThenFetch ==
    (AddDone /\ IsNonNegativeDecimal(last.rec[3])) =>
        /\ get_logs(logs, 0).ok
        /\ \E j \in 1..Len(get_logs(logs, 0).out) :
              get_logs(logs, 0).out[j] = <<last.rec[1], last.rec[2], last.rec[3], No>>

\* C7 as stated: /add rejects every price that is no non-negative decimal, with
\* no store call, and writes only prices that are non-negative decimals.
C7_RejectsNotNonNegative ==
    last.op = "add" =>
        /\ ~IsNonNegativeDecimal(last.rec[3]) =>
              (last.reply = "Invalid price format." /\ last.calls = <<>>)
        /\ last.calls # <<>> => IsNonNegativeDecimal(last.rec[3])

\* C7 as amended: /add rejects the prices float() cannot read once "$" is removed
\* ("abc"), with no store call and no change of the sheet; every other price,
\* the negative "-3" included, goes on to add_to_google_sheets.
C7_RejectsUnparsable ==
    last.op = "add" =>
        /\ last.rec[3] = pAbc =>
              /\ last.reply = "Invalid price format."
              /\ last.calls = <<>>
              /\ logs = prev.logs
        /\ last.rec[3] \in {p1050, pD5, pNeg} =>
              /\ last.reply \in {"Record Added", "Failed to add record."}
              /\ last.calls # <<>>
              /\ last.calls[1] = "batchGet"
        /\ last.reply = "Record Added" => logs[last.n].G = UserEntered(last.rec[3])

\* a negative price was written to the sheet
C7_Witness ==
    /\ last.op = "add"
    /\ last.rec[3] = pNeg
    /\ last.reply = "Record Added"
    /\ logs[last.n].G = <<"-", "3">>

\* ---- roll-over and summary (SpecMonth)

RollOverDone == last.op = "endmonth" /\ last.ok

\* the period sheet of the current month before the operation
OldPeriod == prev.sheets[SheetIndex(prev.sheets, MonthShort[now.month])]

\* "<FullMonthName> (v)", v the value of Q15 before the operation
ArchiveTitle == MonthFull[now.month] \o <<" ", "(">> \o OldPeriod.Q15 \o <<")">>

FollowingMonth == IF now.month = 12 THEN 1 ELSE now.month + 1

NewlyHidden ==
    {i \in 1..Len(sheets) :
        sheets[i].hidden /\ ~(\E j \in 1..Len(prev.sheets) :
                                 prev.sheets[j].id = sheets[i].id /\ prev.sheets[j].hidden)}

Retitled ==
    {j \in 1..Len(prev.sheets) :
        \E i \in 1..Len(sheets) :
            sheets[i].id = prev.sheets[j].id /\ sheets[i].title # prev.sheets[j].title}

\* the parts of C4 that do not speak of the cleared rows
RollOverArchives ==
    /\ \E i \in 1..Len(sheets) :
          /\ sheets[i].title = ArchiveTitle
          /\ sheets[i].hidden
          /\ Shown(sheets[i], logs) = Shown(OldPeriod, prev.logs)
    /\ \E i \in 1..Len(sheets) :
          /\ sheets[i].id = OldPeriod.id
          /\ sheets[i].title = MonthShort[FollowingMonth]
          /\ ~sheets[i].hidden
    /\ Cardinality(NewlyHidden) = 1
    /\ Cardinality(Retitled) = 1

\* C4 as stated: after a successful roll-over the archive "<FullMonthName> (v)"
\* is hidden and holds the old record rows, the original sheet carries the next
\* month's abbreviation and is visible, the record rows of that sheet are
\* empty, and one sheet was hidden and one renamed.
C4_NewActiveSheetCleared ==
    RollOverDone =>
        /\ RollOverArchives
        /\ \A i \in 1..Len(sheets) :
              sheets[i].id = OldPeriod.id => Shown(sheets[i], logs) = <<>>

\* C4 as amended: the same, with the rows that are empty being the record rows
\* (row 7 and below, columns C, E, G) of the Logs sheet.
C4_LogsCleared ==
    RollOverDone =>
        /\ RollOverArchives
        /\ \A r \in Rows : r > HeaderRows =>
              <<logs[r].C, logs[r].E, logs[r].G>> = <<Empty, Empty, Empty>>
        /\ \A r \in Rows : r <= HeaderRows => logs[r] = prev.logs[r]

\* a roll-over succeeded on a Logs sheet that held a record, from a period sheet
\* whose own cells hold its record rows
C4_Witness ==
    /\ RollOverDone
    /\ RecordArea(prev.logs) # <<>>
    /\ ~OldPeriod.view
    /\ OldPeriod.Q15 = q120
    /\ \E i \in 1..Len(sheets) : sheets[i].title = MonthShort[FollowingMonth] /\ sheets[i].rows # <<>>

StepOrder ==
    << "locate", "summary", "readQ15", "duplicate", "relocate",
       "copyRead", "copyWrite", "hide", "rename", "clear" >>

FailureTuple == << <<>>, <<"$","0",".","0","0">>, <<"$","0",".","0","0">>, <<"0">> >>

\* C5: the steps of end_month are issued in order; at the first failure no
\* later step is issued, the effects of the completed steps stay, and the
\* result is (False, "", "$0.00", "$0.00", "0").
C5_StopsAtFirstFailure ==
    last.op = "endmonth" =>
        LET k == Len(last.calls)
            P == prev.sheets
        IN  /\ last.calls = SubSeq(StepOrder, 1, k)
            /\ last.ok => k = Len(StepOrder)
            /\ ~last.ok =>
                  /\ k = last.n
                  /\ last.out = FailureTuple
                  /\ logs = prev.logs
                  /\ k <= 4 => sheets = P
                  /\ k > 4 =>
                        /\ Len(sheets) = Len(P) + 1
                        /\ \E i \in 1..Len(sheets) : sheets[i].title = ArchiveTitle
                  /\ k <= 8 => NewlyHidden = {}
                  /\ k > 8 => Cardinality(NewlyHidden) = 1
                  /\ k <= 9 => Retitled = {}
                  /\ k > 9 => Cardinality(Retitled) = 1

\* the rename was refused after the archive had been made and hidden
C5_Witness ==
    /\ last.op = "endmonth"
    /\ ~last.ok
    /\ last.calls = SubSeq(StepOrder, 1, 9)
    /\ Cardinality(NewlyHidden) = 1
    /\ Retitled = {}

\* the month a token of SummaryTokens names, 0 when it names none
NamedMonth(token) ==
    CASE token = <<"j","a","n">> -> 1
      [] token = <<"F","E","B">> -> 2
      [] token = <<"d","e","c">> -> 12
      [] OTHER -> 0

SummarySheet == SheetIndex(sheets, MonthShort[NamedMonth(last.rec)])

\* C8 as stated: get_month_summary returns the failure result for a token that
\* names no month, for a missing sheet and for a sheet lacking Q15, Q18 or Q21,
\* and succeeds only when the sheet exists and the three cells hold a value.
C8_MissingCellFails ==
    last.op = "summary" =>
        /\ NamedMonth(last.rec) = 0 => (~last.ok /\ last.out = FailureTuple)
        /\ (NamedMonth(last.rec) # 0 /\ SummarySheet = 0) => (~last.ok /\ last.out = FailureTuple)
        /\ last.ok =>
              /\ NamedMonth(last.rec) # 0
              /\ SummarySheet # 0
              /\ sheets[SummarySheet].Q15 # Empty
              /\ sheets[SummarySheet].Q18 # Empty
              /\ sheets[SummarySheet].Q21 # Empty

\* C8 as amended: the failure result is returned for a token that names no
\* month (with no store call), for a missing sheet and for a failed store
\* call; for a sheet that exists the call succeeds and each missing cell is
\* reported as its default, "$0.00", "$0.00" or "0".
C8_MissingCellDefaults ==
    last.op = "summary" =>
        LET m == NamedMonth(last.rec)
        IN  /\ m = 0 => (~last.ok /\ last.out = FailureTuple /\ last.calls = <<>>)
            /\ (m # 0 /\ (SummarySheet = 0 \/ last.fault)) =>
                  (~last.ok /\ last.out = FailureTuple /\ last.calls = <<"batchGet">>)
            /\ (m # 0 /\ SummarySheet # 0 /\ ~last.fault) =>
                  /\ last.ok
                  /\ last.out[1] = MonthFull[m]
                  /\ last.out[2] = IF sheets[SummarySheet].Q15 = Empty
                                   THEN <<"$","0",".","0","0">> ELSE sheets[SummarySheet].Q15
                  /\ last.out[3] = IF sheets[SummarySheet].Q18 = Empty
                                   THEN <<"$","0",".","0","0">> ELSE sheets[SummarySheet].Q18
                  /\ last.out[4] = IF sheets[SummarySheet].Q21 = Empty
                                   THEN <<"0">> ELSE sheets[SummarySheet].Q21

\* a summary of a sheet without Q18 succeeded with the default in its place
C8_Witness ==
    /\ last.op = "summary"
    /\ last.ok
    /\ NamedMonth(last.rec) # 0
    /\ sheets[SummarySheet].Q18 = Empty
    /\ last.out[3] = <<"$","0",".","0","0">>
    /\ last.out[2] = q120

\* ---- caches (SpecCache, SpecLogs)

\* C9 as stated: two consecutive calls of get_log_filters return the same list
\* and read Logs!P7:P18 at most once between them.
C9_SameListOneRead ==
    Len(fhist) = 2 =>
        /\ fhist[1].ret = fhist[2].ret
        /\ fhist[1].reads + fhist[2].reads <= 1

\* C9 as amended: of two consecutive calls, when the read of the first did not
\* fail, both return the same list and the second reads nothing; when it
\* failed, the first returned [] and the second reads the range again.
C9_CachedAfterSuccessfulRead ==
    Len(fhist) = 2 =>
        /\ ~fhist[1].failed =>
              /\ fhist[1].ret = fhist[2].ret
              /\ fhist[2].reads = 0
              /\ fhist[1].reads + fhist[2].reads <= 1
        /\ fhist[1].failed =>
              /\ fhist[1].ret = <<>>
              /\ fhist[1].reads = 1
              /\ fhist[2].reads = 1

\* the second call returned the cached list after the range had changed
C9_Witness ==
    /\ Len(fhist) = 2
    /\ ~fhist[1].failed
    /\ fhist[1].reads = 1
    /\ fhist[2].ret = <<>>
    /\ filterCells[1] = ann

\* C10: after a /logs whose fetch succeeds recent_logs is the list that /logs
\* fetched and filtered, the empty list included; nothing else writes it.
C10_RecentIsLastFetch ==
    /\ (last.op = "logs" /\ last.ok) => recent_logs = last.out
    /\ ~(last.op = "logs" /\ last.ok) => recent_logs = prev.recent

\* ---- soft delete (Spec)

\* the record rows (below the header) the operation recorded in last changed
RowsClearedByLast == {r \in Rows : r > HeaderRows /\ logs[r] # prev.logs[r]}

\* C11: a remove-recent changes no row but by emptying C, E and G of it in
\* place, and an append that follows a remove-recent does not write its record
\* into a record row position the remove-recent cleared.
C11_ClearedRowsNotReclaimed ==
    [][ /\ last'.op = "removerecent" =>
              \A r \in Rows :
                  \/ logs'[r] = logs[r]
                  \/ logs'[r] = [C |-> Empty, E |-> Empty, G |-> Empty, J |-> logs[r].J]
        /\ (last.op = "removerecent" /\ last'.op = "add" /\ last'.ok) =>
              last'.n \notin RowsClearedByLast
      ]_vars

\* ---- locating the period sheet (SpecMonth)

\* C13: when no store call is made to raise, end_month stops at the locate
\* step with "not found" exactly when no sheet is titled with the current
\* month abbreviation, whatever the id of the sheet that is.
C13_LocatesWheneverTitled ==
    (last.op = "endmonth" /\ ~last.fault) =>
        ((~last.ok /\ last.n = 1) <=> SheetIndex(prev.sheets, MonthShort[now.month]) = 0)

\* ---- purge (SpecNuke)

\* the content is "yes" in some mixture of cases
IsYes(c) ==
    /\ Len(c) = 3
    /\ c[1] \in {"y", "Y"}
    /\ c[2] \in {"e", "E"}
    /\ c[3] \in {"s", "S"}

\* the arrivals that confirm: a "yes" of the invoking user in the invoking
\* channel, posted after the prompt and within the wait
Confirmations ==
    {i \in 1..Len(nuke.arrivals) :
        /\ nuke.arrivals[i].pc = "waiting"
        /\ nuke.arrivals[i].at <= NukeTimeout
        /\ nuke.arrivals[i].m.author = "invoker"
        /\ nuke.arrivals[i].m.channel = "here"
        /\ IsYes(nuke.arrivals[i].m.content)}

\* C12: the purge runs only after a confirmation; a wait that times out deletes
\* nothing and is answered "Nuke cancelled."; a "yes" of another user or in
\* another channel, or outside the wait, does not start the purge.
C12_PurgeOnlyAfterConfirmation ==
    /\ (nuke.pc = "purging" \/ nuke.purged \/ nuke.deleted > 0) => Confirmations # {}
    /\ nuke.reply = "Nuke cancelled." =>
          /\ nuke.elapsed = NukeTimeout
          /\ ~nuke.purged
          /\ nuke.deleted = 0
          /\ Confirmations = {}
    /\ (nuke.pc = "done" /\ Confirmations = {}) =>
          /\ nuke.deleted = 0
          /\ nuke.reply \in {"Nuke cancelled.", "I need 'Manage Messages' permission!"}
    /\ nuke.pc \in {"idle", "prompting", "waiting"} => nuke.deleted = 0

\* the purge ran on the invoking user's "YeS" after another user's "yes" had
\* been posted in the channel during the wait
C12_Witness ==
    /\ nuke.purged
    /\ nuke.deleted > 0
    /\ Len(nuke.arrivals) = 2
    /\ nuke.arrivals[1].pc = "waiting"
    /\ nuke.arrivals[1].m = [author |-> "other", channel |-> "here", content |-> yes]
    /\ nuke.arrivals[2].m = [author |-> "invoker", channel |-> "here", content |-> yEs]
    /\ nuke.arrivals[2].at > 0

\* ---- concurrent handlers (SpecLoop)

Ops == loop.oplog

\* the read of column C of an append is followed at once by the update of the
\* same handler, at the row the read gave; until then that handler holds the loop
ReadThenWrite ==
    \A i \in 1..Len(Ops) :
        Ops[i].op = "read" =>
            IF i = Len(Ops)
            THEN loop.running = Ops[i].task /\ loop.tasks[Ops[i].task].pc = "write"
            ELSE /\ Ops[i + 1].task = Ops[i].task
                 /\ Ops[i + 1].op \in {"write", "write-failed"}
                 /\ Ops[i + 1].op = "write" => Ops[i + 1].rows = Ops[i].rows

\* C14 as stated: in every interleaving of add, removerecent and endmonth
\* handlers the read and the write of an append are not separated by a store
\* operation of another handler, and two successful appends target distinct rows.
C14_DistinctRows ==
    /\ ReadThenWrite
    /\ \A i \in 1..Len(Ops), j \in 1..Len(Ops) :
          (i < j /\ Ops[i].op = "write" /\ Ops[j].op = "write") => Ops[i].rows # Ops[j].rows

\* C14 as amended: the read and the write of an append are not separated, and
\* two successful appends target the same row only when a removerecent or an
\* endmonth that ran between them cleared that row.
C14_SameRowOnlyAfterClear ==
    /\ ReadThenWrite
    /\ \A i \in 1..Len(Ops), j \in 1..Len(Ops) :
          (i < j /\ Ops[i].op = "write" /\ Ops[j].op = "write" /\ Ops[i].rows = Ops[j].rows) =>
              \E k \in (i + 1)..(j - 1) :
                  /\ Ops[k].op \in {"removerecent", "endmonth"}
                  /\ Ops[i].rows \subseteq Ops[k].rows

\* three handlers were in flight at once: the removerecent invoked last ran
\* between the two appends, and the second append wrote the row it had cleared
C14_Witness ==
    /\ Len(loop.tasks) = 3
    /\ Len(Ops) = 5
    /\ Ops[1] = StoreOp(1, "read", {HeaderRows + 1})
    /\ Ops[2] = StoreOp(1, "write", {HeaderRows + 1})
    /\ Ops[3] = StoreOp(3, "removerecent", {HeaderRows + 1})
    /\ Ops[4] = StoreOp(2, "read", {HeaderRows + 1})
    /\ Ops[5] = StoreOp(2, "write", {HeaderRows + 1})
    /\ logs[HeaderRows + 1].C = bob

====
